---- MODULE Spec2Model ----
(***************************************************************************)
(* Order lifecycle and payment reconciliation of the shopping backend.     *)
(*                                                                         *)
(*   orderController.js   (src/unnamed/part_002, lines 1-414)              *)
(*   paymentController.js (src/unnamed/part_002, lines 417-844)            *)
(*   models/Order.js      (src/src/models/Order.js)                        *)
(*                                                                         *)
(* Money is kept in mills (1/1000 of the currency unit) while a handler    *)
(* computes with it and in cents once it is stored in a DECIMAL(10,2)      *)
(* column.  JavaScript's binary floating point is modelled as exact        *)
(* decimal arithmetic; the inputs below are ones on which both agree.      *)
(*                                                                         *)
(* The relational store is PostgreSQL (src/README.md): a transaction's     *)
(* writes are private until it commits, an UPDATE takes the row's lock     *)
(* until the transaction ends and reads the latest committed row, and the  *)
(* id sequence of a table is not rolled back.                              *)
(***************************************************************************)
EXTENDS Integers, Sequences, FiniteSets, TLC

(***************************************************************************)
(* Bounds of the model.                                                    *)
(***************************************************************************)
NumRequests == 2          \* concurrent createOrder requests
InitStockLevel == 3       \* stock of every product before the first order
MaxIntents == 1           \* payment intents the provider creates
NumShopRequests == 1      \* createOrder requests served next to the payments

Requests == 1..NumRequests
Products == {1, 2}        \* ids of the rows of the products table
NoSuchProducts == {3}     \* productIds no row has
Users == {1, 2}

VARIABLES
  orders,       \* committed rows of the orders table: id -> row
  stock,        \* committed products.stock: product id -> integer
  nextOrderId,  \* the orders id sequence
  rowLock,      \* product id -> request holding the row's lock, 0 if free
  pc,           \* request -> position in createOrder
  req,          \* request -> the request being served (user and body)
  txState,      \* request -> "none" | "open" | "commit" | "rollback"
  txOrderId,    \* request -> id of the row inserted in its transaction, 0 if none
  txOrder,      \* request -> the row inserted in its transaction
  txStock,      \* request -> product id -> stock written in its transaction
                \*   (of the rows it holds the lock of, 0 for the others)
  idx,          \* request -> index of the next item to decrement
  resp,         \* request -> HTTP status sent, 0 if none was sent
  intents,      \* the payment provider's payment intents: id -> intent
  lastOp,       \* the payment request the last step served and its
                \* response, NoOp after a step that served another request
  users,        \* rows of the users table: id -> row
  lastCall      \* the last order or admin request served and its response

orderVars == <<nextOrderId, rowLock, pc, req, txState, txOrderId, txOrder,
               txStock, idx, resp, stock>>
payVars == <<intents, lastOp>>
userVars == <<users, lastCall>>
vars == <<orders, orderVars, payVars, userVars>>

(***************************************************************************)
(* JavaScript values of a request body.                                    *)
(***************************************************************************)
JsUndefined == [kind |-> "undefined", elems |-> <<>>]
JsObject    == [kind |-> "object", elems |-> <<>>]
JsArray(s)  == [kind |-> "array", elems |-> s]

\* !v
Falsy(v) == v.kind = "undefined"
\* Array.isArray(v)
IsArray(v) == v.kind = "array"

\* One line item; the price is given in cents and kept in mills.
Item(p, q, c) == [productId |-> p, quantity |-> q, price |-> c * 10]

NullStr == "NULL"

(***************************************************************************)
(* The createOrder requests served: the caller (req.user.id, set by the    *)
(* protect middleware) and the body.                                       *)
(***************************************************************************)
OrderRequest(u, items, ship) ==
  [userId |-> u, items |-> items, shippingAddress |-> ship,
   billingAddress |-> JsUndefined, notes |-> NullStr]

OrderRequests ==
  { OrderRequest(1, JsArray(<<Item(1, 2, 1000), Item(2, 1, 500)>>), JsObject),
    OrderRequest(2, JsArray(<<Item(2, 1, 500), Item(1, 2, 1000)>>), JsObject),
    OrderRequest(1, JsArray(<<Item(1, 2, 1000)>>), JsObject),
    OrderRequest(2, JsArray(<<Item(1, 1, 5)>>), JsObject),
    OrderRequest(1, JsArray(<<Item(3, 1, 1000)>>), JsObject),
    OrderRequest(2, JsArray(<<Item(1, 1, -500)>>), JsObject),
    OrderRequest(1, JsUndefined, JsObject),
    OrderRequest(1, JsObject, JsObject),
    OrderRequest(2, JsArray(<<>>), JsObject),
    OrderRequest(2, JsArray(<<Item(1, 1, 1000)>>), JsUndefined) }

NoRequest == OrderRequest(0, JsUndefined, JsUndefined)

(***************************************************************************)
(* models/Order.js                                                         *)
(***************************************************************************)
\* A value stored in a DECIMAL(10,2) column: mills rounded to cents, half
\* away from zero.
Decimal2(m) == IF m >= 0 THEN (m + 5) \div 10 ELSE 0 - ((5 - m) \div 10)

\* validate.isValidItems: throws unless the value is a non-empty array.
isValidItems(v) == IsArray(v) /\ Len(v.elems) > 0

\* The validators of the model: isValidItems, min: 0 on the amounts and
\* allowNull: false on shippingAddress.  TRUE when Order.create accepts.
OrderValidates(o) ==
  /\ isValidItems(o.items)
  /\ o.subtotal >= 0
  /\ o.tax >= 0
  /\ o.shipping >= 0
  /\ o.totalAmount >= 0
  /\ o.shippingAddress.kind # "undefined"

\* The row Order.create inserts for the given attributes: the amounts take
\* the scale of their columns, the columns left out take their defaults.
OrderRow(o) ==
  [userId |-> o.userId,
   items |-> o.items.elems,
   subtotal |-> Decimal2(o.subtotal),
   tax |-> Decimal2(o.tax),
   shipping |-> Decimal2(o.shipping),
   discount |-> 0,
   totalAmount |-> Decimal2(o.totalAmount),
   status |-> "pending",
   paymentStatus |-> "pending",
   paymentId |-> 0,
   trackingNumber |-> NullStr,
   notes |-> o.notes,
   shippingAddress |-> o.shippingAddress,
   billingAddress |-> o.billingAddress]

\* paymentId is the id of a payment intent, 0 for NULL.
\* Order.prototype.calculateTotal, in cents.
calculateTotal(row) == row.subtotal + row.tax + row.shipping - row.discount

(***************************************************************************)
(* createOrder (orderController.js)                                        *)
(***************************************************************************)
ShippingCost == 10000     \* const shipping = 10.00, in mills

RECURSIVE SumItems(_)
\* for (const item of items) subtotal += item.price * item.quantity
SumItems(s) ==
  IF s = <<>> THEN 0
  ELSE Head(s).price * Head(s).quantity + SumItems(Tail(s))

\* const tax = subtotal * 0.1
TaxOf(subtotal) == subtotal \div 10

ItemsRejectedUnlessEmpty(body) == Falsy(body.items) \/ ~IsArray(body.items)

\* The request is turned away by the checks of lines 172-184.
ItemsRejected(body) ==
  Falsy(body.items) \/ ~IsArray(body.items) \/ Len(body.items.elems) = 0

AddressRejected(body) == Falsy(body.shippingAddress)

\* The attributes createOrder passes to Order.create (lines 186-207).
OrderAttributes(rq) ==
  LET subtotal == SumItems(rq.items.elems)
      tax == TaxOf(subtotal)
      shipping == ShippingCost
  IN [userId |-> rq.userId,
      items |-> rq.items,
      subtotal |-> subtotal,
      tax |-> tax,
      shipping |-> shipping,
      totalAmount |-> subtotal + tax + shipping,
      shippingAddress |-> rq.shippingAddress,
      billingAddress |-> IF Falsy(rq.billingAddress)
                         THEN rq.shippingAddress ELSE rq.billingAddress,
      notes |-> rq.notes]

NoRow == OrderRow(OrderAttributes(NoRequest))

(***************************************************************************)
(* The users table: two customers (the owners of the orders), an admin and *)
(* a super admin, all active.                                              *)
(***************************************************************************)
Roles == {"user", "admin", "super_admin"}

UserRow(role, active) == [role |-> role, isActive |-> active]

RegisteredUsers ==
  (1 :> UserRow("user", TRUE)) @@ (2 :> UserRow("user", TRUE))
  @@ (3 :> UserRow("admin", TRUE)) @@ (4 :> UserRow("super_admin", TRUE))

\* An order or admin request and its response.  caller is the id in the
\* bearer token (0 when the request carries no valid token), target the id
\* in the path, patch the fields of the body, status the HTTP status and
\* data the id of the row in the response (0 when it carries none), failure
\* which call of the handler threw ("none" or "db"), handler whether the
\* middleware of the route called the handler.
Call(route, caller, target, patch, status, data) ==
  [route |-> route, caller |-> caller, target |-> target, patch |-> patch,
   status |-> status, data |-> data, failure |-> "none", handler |-> TRUE]

\* The request rec, answered from the catch block of its handler.
Caught(rec) == [rec EXCEPT !.failure = "db"]

\* A field the body of a request does not carry.
NotSent == "undefined"

NoPatch == [status |-> NotSent, trackingNumber |-> NotSent, notes |-> NotSent,
            role |-> NotSent, isActive |-> NotSent]

NoCall == Call("none", 0, 0, NoPatch, 0, 0)

\* A payment request and its response.  order and intent are the ids the
\* request names (0 when it names none), kind the event kind of a webhook,
\* signed whether a webhook's signature verifies, failure which call of the
\* handler threw ("none", "db" or "stripe"), status the HTTP status.
\* again: a signed webhook repeats the delivery served just before it.
\* user: the caller protect resolved (req.user.id), 0 where none is used.
Op(op, order, intent, kind, signed, failure, status) ==
  [op |-> op, order |-> order, intent |-> intent, kind |-> kind,
   signed |-> signed, failure |-> failure, status |-> status, user |-> 0,
   again |-> /\ op = "webhook" /\ signed
             /\ lastOp.op = op /\ lastOp.order = order
             /\ lastOp.intent = intent /\ lastOp.kind = kind
             /\ lastOp.signed = signed]

NoOp == [op |-> "none", order |-> 0, intent |-> 0, kind |-> "",
         signed |-> FALSE, failure |-> "none", status |-> 0, user |-> 0,
         again |-> FALSE]

\* The request rec, made by user u.
OpBy(u, rec) == [rec EXCEPT !.user = u]
NoWrites == [p \in Products |-> 0]

\* The rows of products a transaction has written are the ones it locks.
Wrote(r, p) == rowLock[p] = r

RowAvailableNoLock(r, p) == TRUE

\* An UPDATE of row p by request r waits while another transaction holds
\* the row's lock.
RowAvailable(r, p) == rowLock[p] \in {0, r}

\* products.stock of row p as the transaction of request r sees it.
StockSeen(r, p) == IF Wrote(r, p) THEN txStock[r][p] ELSE stock[p]

\* The products table after the transaction of request r commits.
StockOnCommit(r) ==
  [p \in Products |-> IF Wrote(r, p) THEN txStock[r][p] ELSE stock[p]]

StockOnRollbackKeepsWrites(r) == StockOnCommit(r)

\* The products table after the transaction of request r rolls back.
StockOnRollback(r) == stock

\* The orders table after the transaction of request r commits.
OrdersOnCommit(r) ==
  IF txOrderId[r] = 0 THEN orders ELSE orders @@ (txOrderId[r] :> txOrder[r])

\* The orders table after the transaction of request r rolls back.
OrdersOnRollback(r) == orders

ReleaseLocks(r) == [p \in Products |-> IF rowLock[p] = r THEN 0 ELSE rowLock[p]]

\* The catch block of createOrder (lines 234-238) while the transaction is
\* open: roll back, answer 500.
CatchRollback(r) ==
  /\ orders' = OrdersOnRollback(r)
  /\ stock' = StockOnRollback(r)
  /\ rowLock' = ReleaseLocks(r)
  /\ txState' = [txState EXCEPT ![r] = "rollback"]
  /\ resp' = [resp EXCEPT ![r] = 500]
  /\ pc' = [pc EXCEPT ![r] = "done"]

\* Lines 167-207: open the transaction, check the body, compute the totals
\* and insert the order.  dbFails: the INSERT is refused by the store.
CreateOrderInsert(r) ==
  /\ pc[r] = "start"
  /\ \E rq \in OrderRequests, dbFails \in BOOLEAN :
       /\ req' = [req EXCEPT ![r] = rq]
       /\ IF ItemsRejected(rq) \/ AddressRejected(rq)
          THEN \* return res.status(400): the transaction is left open
               /\ ~dbFails
               /\ txState' = [txState EXCEPT ![r] = "open"]
               /\ resp' = [resp EXCEPT ![r] = 400]
               /\ pc' = [pc EXCEPT ![r] = "done"]
               /\ UNCHANGED <<orders, stock, rowLock, nextOrderId, txOrderId,
                              txOrder, txStock, idx>>
          ELSE IF ~OrderValidates(OrderAttributes(rq))
          THEN \* Order.create throws a validation error before any query
               /\ ~dbFails
               /\ CatchRollback(r)
               /\ UNCHANGED <<nextOrderId, txOrderId, txOrder, txStock, idx>>
          ELSE IF dbFails
          THEN \* the id was drawn from the sequence, the INSERT failed
               /\ nextOrderId' = nextOrderId + 1
               /\ CatchRollback(r)
               /\ UNCHANGED <<txOrderId, txOrder, txStock, idx>>
          ELSE /\ nextOrderId' = nextOrderId + 1
               /\ txOrderId' = [txOrderId EXCEPT ![r] = nextOrderId]
               /\ txOrder' = [txOrder EXCEPT ![r] = OrderRow(OrderAttributes(rq))]
               /\ txState' = [txState EXCEPT ![r] = "open"]
               /\ idx' = [idx EXCEPT ![r] = 1]
               /\ pc' = [pc EXCEPT ![r] = "decrement"]
               /\ UNCHANGED <<orders, stock, rowLock, txStock, resp>>

\* Lines 210-216, one turn of the loop: Product.decrement('stock', {by,
\* where: {id}, transaction}) is UPDATE products SET stock = stock - by
\* WHERE id = productId; it changes no row when no product has that id.
DecrementItem(r) ==
  /\ pc[r] = "decrement"
  /\ idx[r] <= Len(req[r].items.elems)
  /\ LET item == req[r].items.elems[idx[r]]
         p == item.productId
     IN /\ p \in Products => RowAvailable(r, p)
        /\ IF p \in Products
           THEN /\ txStock' = [txStock EXCEPT ![r][p] = StockSeen(r, p) - item.quantity]
                /\ rowLock' = [rowLock EXCEPT ![p] = r]
           ELSE UNCHANGED <<txStock, rowLock>>
        /\ idx' = [idx EXCEPT ![r] = idx[r] + 1]
        /\ UNCHANGED <<orders, stock, nextOrderId, pc, req, txState, txOrderId,
                       txOrder, resp>>

\* Product.decrement throws (the store refuses or aborts the statement, for
\* instance as the victim of a deadlock): catch, roll back, 500.
DecrementFails(r) ==
  /\ pc[r] = "decrement"
  /\ idx[r] <= Len(req[r].items.elems)
  /\ CatchRollback(r)
  /\ UNCHANGED <<nextOrderId, req, txOrderId, txOrder, txStock, idx>>

\* Line 218: await transaction.commit()
Commit(r) ==
  /\ pc[r] = "decrement"
  /\ idx[r] > Len(req[r].items.elems)
  /\ orders' = OrdersOnCommit(r)
  /\ stock' = StockOnCommit(r)
  /\ rowLock' = ReleaseLocks(r)
  /\ txState' = [txState EXCEPT ![r] = "commit"]
  /\ pc' = [pc EXCEPT ![r] = "reload"]
  /\ UNCHANGED <<nextOrderId, req, txOrderId, txOrder, txStock, idx, resp>>

\* Lines 220-233: read the order back and answer 201.
Respond(r) ==
  /\ pc[r] = "reload"
  /\ resp' = [resp EXCEPT ![r] = 201]
  /\ pc' = [pc EXCEPT ![r] = "done"]
  /\ UNCHANGED <<orders, stock, rowLock, nextOrderId, req, txState, txOrderId,
                 txOrder, txStock, idx>>

\* Order.findByPk throws after the commit: the catch block calls rollback()
\* on the finished transaction, which throws in turn; no response is sent.
ReloadFails(r) ==
  /\ pc[r] = "reload"
  /\ pc' = [pc EXCEPT ![r] = "done"]
  /\ UNCHANGED <<orders, stock, rowLock, nextOrderId, req, txState, txOrderId,
                 txOrder, txStock, idx, resp>>

InitStock == [p \in Products |-> InitStockLevel]

InitOrder ==
  /\ orders = <<>>
  /\ stock = InitStock
  /\ nextOrderId = 1
  /\ rowLock = [p \in Products |-> 0]
  /\ pc = [r \in Requests |-> "start"]
  /\ req = [r \in Requests |-> NoRequest]
  /\ txState = [r \in Requests |-> "none"]
  /\ txOrderId = [r \in Requests |-> 0]
  /\ txOrder = [r \in Requests |-> NoRow]
  /\ txStock = [r \in Requests |-> NoWrites]
  /\ idx = [r \in Requests |-> 0]
  /\ resp = [r \in Requests |-> 0]
  /\ intents = <<>>
  /\ lastOp = NoOp
  /\ users = RegisteredUsers
  /\ lastCall = NoCall

NextOrder ==
  \E r \in Requests :
    \/ CreateOrderInsert(r) /\ UNCHANGED <<payVars, userVars>>
    \/ DecrementItem(r) /\ UNCHANGED <<payVars, userVars>>
    \/ DecrementFails(r) /\ UNCHANGED <<payVars, userVars>>
    \/ Commit(r) /\ UNCHANGED <<payVars, userVars>>
    \/ Respond(r) /\ UNCHANGED <<payVars, userVars>>
    \/ ReloadFails(r) /\ UNCHANGED <<payVars, userVars>>

SpecOrder == InitOrder /\ [][NextOrder]_vars

(***************************************************************************)
(* Properties of createOrder.                                              *)
(***************************************************************************)
RECURSIVE QuantityOf(_, _)
\* The quantity a sequence of items orders of product p.
QuantityOf(s, p) ==
  IF s = <<>> THEN 0
  ELSE (IF Head(s).productId = p THEN Head(s).quantity ELSE 0)
       + QuantityOf(Tail(s), p)

RECURSIVE OrderedOf(_, _)
\* The quantity the committed orders with ids in S order of product p.
OrderedOf(S, p) ==
  IF S = {} THEN 0
  ELSE LET o == CHOOSE x \in S : TRUE
       IN QuantityOf(orders[o].items, p) + OrderedOf(S \ {o}, p)

Failed(r) == pc[r] = "done" /\ resp[r] = 500

\* C2: createOrder is all-or-nothing.  The committed tables, which are what
\* every other request reads, hold an order exactly with all the stock
\* decrements of its items: the stock of each product is its initial stock
\* minus what the committed orders order of it.  A request that failed in
\* its transaction (insert, validation or a decrement) has left no order
\* row, and none of its writes is in the committed stock.
C2_AllOrNothing ==
  /\ \A p \in Products : stock[p] = InitStock[p] - OrderedOf(DOMAIN orders, p)
  /\ \A r \in Requests :
       Failed(r) => /\ txOrderId[r] \notin DOMAIN orders
                    /\ \A p \in Products : ~Wrote(r, p)

\* A request failed at its second decrement, after its insert and a first
\* decrement, while the order of another request is committed.
C2_Witness ==
  \E r \in Requests :
    /\ Failed(r) /\ txOrderId[r] # 0 /\ idx[r] = 2
    /\ txStock[r][req[r].items.elems[1].productId] < InitStockLevel
    /\ orders # <<>>

\* C3: when every request orders quantity q of the same product p and every
\* request has succeeded, the stock of p is its initial stock minus N*q.
C3_NoLostUpdate ==
  \A p \in Products :
    (\A r \in Requests :
        /\ resp[r] = 201
        /\ Len(req[r].items.elems) = 1
        /\ req[r].items.elems[1].productId = p
        /\ req[r].items.elems[1].quantity = req[1].items.elems[1].quantity)
    => stock[p] = InitStock[p] - NumRequests * req[1].items.elems[1].quantity

\* Every request has ordered two of product 1 and has been answered 201.
C3_Witness ==
  \A r \in Requests :
    /\ resp[r] = 201
    /\ req[r].items.elems = <<Item(1, 2, 1000)>>

\* C4: a request whose items are missing, not an array or empty, or whose
\* shippingAddress is absent, is answered 400; it has inserted no order and
\* written no stock.
C4_InvalidRequest ==
  \A r \in Requests :
    (/\ pc[r] = "done"
     /\ \/ req[r].items.kind \in {"undefined", "object"}
        \/ req[r].items = JsArray(<<>>)
        \/ req[r].shippingAddress.kind = "undefined")
    => /\ resp[r] = 400
       /\ txOrderId[r] = 0
       /\ \A p \in Products : ~Wrote(r, p) /\ txStock[r][p] = 0
       /\ \A o \in DOMAIN orders : \E r2 \in Requests \ {r} : txOrderId[r2] = o

\* A request with an empty items array has been answered while another
\* request's order is committed.
C4_Witness ==
  \E r \in Requests :
    /\ pc[r] = "done" /\ req[r].items = JsArray(<<>>) /\ resp[r] = 400
    /\ orders # <<>>

\* C5: a request naming a productId that no product has fails and leaves
\* no order.
C5_UnknownProductRollsBack ==
  \A r \in Requests :
    (/\ pc[r] = "done"
     /\ ~ItemsRejected(req[r]) /\ ~AddressRejected(req[r])
     /\ \E i \in 1..Len(req[r].items.elems) :
          req[r].items.elems[i].productId \notin Products)
    => /\ resp[r] # 201
       /\ txOrderId[r] \notin DOMAIN orders

\* C6: no product has a stock below 0.
C6_StockNonNegative == \A p \in Products : stock[p] >= 0

\* C7: every created order has subtotal = sum of price*quantity, tax = 10%
\* of subtotal, shipping = 10.00, discount = 0 and totalAmount = subtotal +
\* tax + shipping - discount (the stored amounts are in cents, the item
\* prices in mills).
C7_Totals ==
  \A o \in DOMAIN orders :
    /\ orders[o].subtotal * 10 = SumItems(orders[o].items)
    /\ orders[o].tax * 10 = orders[o].subtotal
    /\ orders[o].shipping = 1000
    /\ orders[o].discount = 0
    /\ orders[o].totalAmount = calculateTotal(orders[o])

(***************************************************************************)
(* The payment provider (Stripe), as far as the handlers depend on it.     *)
(* An intent is created by createPaymentIntent with the order and the user *)
(* in its metadata.  A payment attempt on it fails or succeeds; a failed   *)
(* intent can be paid again, a succeeded one is final.  The provider emits *)
(* payment_intent.created when the intent is created,                      *)
(* payment_intent.payment_failed at a failed attempt and                   *)
(* payment_intent.succeeded at the success, and delivers each event any    *)
(* number of times, in any order.                                          *)
(***************************************************************************)
EventKinds == {"payment_intent.created", "payment_intent.payment_failed",
               "payment_intent.succeeded"}

Intent(o, u, amount) ==
  [orderId |-> o, userId |-> u, amount |-> amount,
   status |-> "requires_payment_method", failed |-> FALSE]

\* The provider has emitted the event of this kind for intent pi.
Emitted(kind, pi) ==
  /\ pi \in DOMAIN intents
  /\ \/ kind = "payment_intent.created"
     \/ kind = "payment_intent.payment_failed" /\ intents[pi].failed
     \/ kind = "payment_intent.succeeded" /\ intents[pi].status = "succeeded"

\* A payment attempt on intent pi is declined.
ProviderPaymentFails(pi) ==
  /\ pi \in DOMAIN intents
  /\ intents[pi].status = "requires_payment_method"
  /\ intents' = [intents EXCEPT ![pi].failed = TRUE]
  /\ lastOp' = Op("provider", 0, pi, "payment_intent.payment_failed", TRUE, "none", 0)
  /\ UNCHANGED <<orders, orderVars, userVars>>

\* A payment attempt on intent pi succeeds.
ProviderPaymentSucceeds(pi) ==
  /\ pi \in DOMAIN intents
  /\ intents[pi].status = "requires_payment_method"
  /\ intents' = [intents EXCEPT ![pi].status = "succeeded"]
  /\ lastOp' = Op("provider", 0, pi, "payment_intent.succeeded", TRUE, "none", 0)
  /\ UNCHANGED <<orders, orderVars, userVars>>

\* The provider account holds an intent this backend did not create for one
\* of its orders: its metadata names no order (0), or an id no order has.
ProviderForeignIntent(o) ==
  /\ Len(intents) < MaxIntents
  /\ o = 0 \/ o \notin DOMAIN orders
  /\ intents' = Append(intents, Intent(o, 0, 100))
  /\ lastOp' = Op("provider", o, Len(intents) + 1, "payment_intent.created",
                  TRUE, "none", 0)
  /\ UNCHANGED <<orders, orderVars, userVars>>

(***************************************************************************)
(* paymentController.js                                                    *)
(***************************************************************************)
\* The ids a request can name: none (0), an order, an id no order has.
OrderIdInputs == {0} \cup DOMAIN orders \cup {nextOrderId}
IntentIdInputs == 0..MaxIntents
Failures == {"none", "db", "stripe"}

FindOrderOfAnyUser(id, u) == IF id \in DOMAIN orders THEN id ELSE 0

\* Order.findOne({where: {id, userId}}): the id of the row, 0 for null.
FindOwnOrder(id, u) ==
  IF id \in DOMAIN orders /\ orders[id].userId = u THEN id ELSE 0

\* Order.findByPk(id): the id of the row, 0 for null.
FindByPk(id) == IF id \in DOMAIN orders THEN id ELSE 0

\* Math.round(order.totalAmount * 100) (line 498) of a stored amount of the
\* given cents: the product taken in thousandths of a cent and rounded to
\* the nearest cent.
MinorUnitsWithoutScaling(cents) == (cents + 50) \div 100

MinorUnits(cents) == (cents * 1000 + 500) \div 1000

\* createPaymentIntent (lines 463-518).
CreatePaymentIntent(u, orderId, failure) ==
  LET order == FindOwnOrder(orderId, u)
      done(status) ==
        /\ lastOp' = OpBy(u, Op("createPaymentIntent", orderId, 0, "", TRUE,
                               failure, status))
        /\ UNCHANGED <<orders, orderVars, userVars, intents>>
  IN IF orderId = 0 THEN failure = "none" /\ done(400)
     ELSE IF order = 0 THEN failure = "none" /\ done(404)
     ELSE IF failure = "db" THEN done(500)
     ELSE IF orders[order].paymentStatus = "paid" THEN failure = "none" /\ done(400)
     ELSE IF failure = "stripe" THEN done(500)
     ELSE /\ Len(intents) < MaxIntents
          /\ intents' = Append(intents,
                 Intent(order, u, MinorUnits(orders[order].totalAmount)))
          /\ lastOp' = OpBy(u, Op("createPaymentIntent", orderId,
                                  Len(intents) + 1, "", TRUE, failure, 200))
          /\ UNCHANGED <<orders, orderVars, userVars>>

MarkPaidWithoutPaymentId(order, pi) ==
  [orders EXCEPT ![order].paymentStatus = "paid",
                 ![order].status = "processing"]

\* The update of confirmPayment (lines 596-600).
MarkPaid(order, pi) ==
  [orders EXCEPT ![order].paymentStatus = "paid",
                 ![order].paymentId = pi,
                 ![order].status = "processing"]

\* confirmPayment (lines 565-620).  failure "db": a query of the handler
\* throws; "stripe": paymentIntents.retrieve throws, as it also does for an
\* id the provider does not know.  (A query that throws where none of the
\* rows asked for exists is answered 500 just the same and is left out.)
ConfirmPayment(u, orderId, pi, failure) ==
  LET order == FindOwnOrder(orderId, u)
      done(status) ==
        /\ lastOp' = OpBy(u, Op("confirmPayment", orderId, pi, "", TRUE,
                               failure, status))
        /\ UNCHANGED <<orders, orderVars, userVars, intents>>
  IN IF orderId = 0 \/ pi = 0 THEN failure = "none" /\ done(400)
     ELSE IF order = 0 THEN failure = "none" /\ done(404)
     ELSE IF failure = "db" THEN done(500)
     ELSE IF failure = "stripe" \/ pi \notin DOMAIN intents THEN done(500)
     ELSE IF intents[pi].status = "succeeded"
     THEN /\ orders' = MarkPaid(order, pi)
          /\ lastOp' = OpBy(u, Op("confirmPayment", orderId, pi, "", TRUE,
                                  failure, 200))
          /\ UNCHANGED <<orderVars, userVars, intents>>
     ELSE done(400)

constructEventNeverThrows(signed) == FALSE

\* stripe.webhooks.constructEvent throws unless the signature verifies.
constructEventThrows(signed) == ~signed

handlePaymentSuccessNoPaymentId(pi, metaOrder, failure) ==
  IF failure = "db" THEN orders
  ELSE IF metaOrder # 0 /\ FindByPk(metaOrder) # 0
       THEN [orders EXCEPT ![metaOrder].paymentStatus = "paid",
                           ![metaOrder].status = "processing"]
       ELSE orders

\* handlePaymentSuccess (lines 680-697): the orders table it leaves.  An
\* error of findByPk or update is caught and logged.
handlePaymentSuccess(pi, metaOrder, failure) ==
  IF failure = "db" THEN orders
  ELSE IF metaOrder # 0 /\ FindByPk(metaOrder) # 0
       THEN [orders EXCEPT ![metaOrder].paymentStatus = "paid",
                           ![metaOrder].paymentId = pi,
                           ![metaOrder].status = "processing"]
       ELSE orders

handlePaymentFailureCancels(pi, metaOrder, failure) ==
  IF failure = "db" THEN orders
  ELSE IF metaOrder # 0 /\ FindByPk(metaOrder) # 0
       THEN [orders EXCEPT ![metaOrder].paymentStatus = "failed",
                           ![metaOrder].paymentId = pi,
                           ![metaOrder].status = "cancelled"]
       ELSE orders

\* handlePaymentFailure (lines 699-715): the orders table it leaves.
handlePaymentFailure(pi, metaOrder, failure) ==
  IF failure = "db" THEN orders
  ELSE IF metaOrder # 0 /\ FindByPk(metaOrder) # 0
       THEN [orders EXCEPT ![metaOrder].paymentStatus = "failed",
                           ![metaOrder].paymentId = pi]
       ELSE orders

\* Whether handlePaymentSuccess / handlePaymentFailure throw to their
\* caller: their own try/catch (lines 694-696, 712-714) swallows every error.
handlerThrows(failure) == FALSE

\* The status handleWebhook answers a verified event with (lines 657-677):
\* 200 after the switch, whatever the kind of the event, 500 when a handler
\* throws.
WebhookStatusRejectsUnhandled(kind, failure) ==
  IF handlerThrows(failure) THEN 500
  ELSE IF kind \notin {"payment_intent.succeeded",
                       "payment_intent.payment_failed"} THEN 400
  ELSE 200

WebhookStatus(kind, failure) ==
  IF handlerThrows(failure) THEN 500 ELSE 200

\* handleWebhook (lines 642-678).  The payload of a request whose signature
\* verifies is an event the provider has emitted; any other payload is
\* whatever the sender chose.
HandleWebhook(signed, kind, pi, metaOrder, failure) ==
  /\ signed => Emitted(kind, pi) /\ metaOrder = intents[pi].orderId
  /\ failure = "db" =>
       signed /\ kind # "payment_intent.created" /\ FindByPk(metaOrder) # 0
  /\ IF constructEventThrows(signed)
     THEN /\ lastOp' = Op("webhook", metaOrder, pi, kind, signed, failure, 400)
          /\ UNCHANGED orders
     ELSE /\ orders' =
               CASE kind = "payment_intent.succeeded" ->
                      handlePaymentSuccess(pi, metaOrder, failure)
                 [] kind = "payment_intent.payment_failed" ->
                      handlePaymentFailure(pi, metaOrder, failure)
                 [] OTHER -> orders
          /\ lastOp' = Op("webhook", metaOrder, pi, kind, signed, failure,
                          WebhookStatus(kind, failure))
  /\ UNCHANGED <<orderVars, userVars, intents>>

\* The checks of processRefund on the order it found (lines 788-800): TRUE
\* when the request is answered 400.
RefundRejectedWithoutPaymentId(row) == row.paymentId = 0

RefundRejected(row) == row.paymentStatus # "paid" \/ row.paymentId = 0

\* processRefund (lines 767-837); the route admits admins only.  The
\* provider refunds a payment intent that has succeeded and refuses any
\* other.  The intent of the response is the one named to the provider, 0
\* when the handler sent it no refund request.
ProcessRefund(u, orderId, reason, failure) ==
  LET order == FindByPk(orderId)
      done(pi, status) ==
        /\ lastOp' = OpBy(u, Op("processRefund", orderId, pi, "", TRUE, failure,
                               status))
        /\ UNCHANGED <<orders, orderVars, userVars, intents>>
  IN IF orderId = 0 \/ ~reason THEN failure = "none" /\ done(0, 400)
     ELSE IF order = 0 THEN failure = "none" /\ done(0, 404)
     ELSE IF failure = "db" THEN done(0, 500)
     ELSE IF RefundRejected(orders[order]) THEN failure = "none" /\ done(0, 400)
     ELSE IF \/ failure = "stripe"
             \/ intents[orders[order].paymentId].status # "succeeded"
     THEN done(orders[order].paymentId, 500)
     ELSE /\ orders' = [orders EXCEPT ![order].paymentStatus = "refunded",
                                      ![order].status = "cancelled"]
          /\ lastOp' = OpBy(u, Op("processRefund", orderId,
                                  orders[order].paymentId, "", TRUE, failure,
                                  200))
          /\ UNCHANGED <<orderVars, userVars, intents>>

(***************************************************************************)
(* processRefund step by step, for requests served at the same time: the   *)
(* handler gives way at each await (findByPk, refunds.create, update).     *)
(* The request keeps the order instance it read.                           *)
(***************************************************************************)
\* amount is the amount of the body in cents, 0 when it is not sent; refund
\* is the amount of the refund object refunds.create returned, 0 before.
RefundRequest(orderId, amount, row) ==
  [orderId |-> orderId, amount |-> amount, paymentId |-> row.paymentId,
   totalAmount |-> row.totalAmount, refund |-> 0]

\* refundAmount (line 803), in cents: the amount of the body when it is
\* sent and not 0, else the total of the order.
RefundAmount(rq) ==
  IF rq.amount # 0 THEN MinorUnits(rq.amount) ELSE MinorUnits(rq.totalAmount)

\* The refund the provider has accepted from request r for intent pi, in
\* cents; 0 when it has accepted none.
RefundOf(r, pi) ==
  IF /\ pc[r] \in {"update", "done"}
     /\ "refund" \in DOMAIN req[r]
     /\ req[r].paymentId = pi
  THEN req[r].refund ELSE 0

RECURSIVE RefundedUpTo(_, _)
\* The cents of intent pi the provider has refunded to requests 1..n.
RefundedUpTo(n, pi) ==
  IF n = 0 THEN 0 ELSE RefundOf(n, pi) + RefundedUpTo(n - 1, pi)

\* stripe.refunds.create({payment_intent: pi, amount: amt}) is accepted: the
\* intent has succeeded and the amount is within what is left of it.
ProviderAcceptsRefund(pi, amt) ==
  /\ pi \in DOMAIN intents
  /\ intents[pi].status = "succeeded"
  /\ amt > 0
  /\ RefundedUpTo(NumRequests, pi) + amt <= intents[pi].amount

\* Lines 769-800: read the order and check it.
RefundStart(r, orderId, amount) ==
  /\ pc[r] = "start"
  /\ orderId \in DOMAIN orders
  /\ IF RefundRejected(orders[orderId])
     THEN /\ resp' = [resp EXCEPT ![r] = 400]
          /\ pc' = [pc EXCEPT ![r] = "done"]
          /\ UNCHANGED req
     ELSE /\ req' = [req EXCEPT ![r] =
                       RefundRequest(orderId, amount, orders[orderId])]
          /\ pc' = [pc EXCEPT ![r] = "refund"]
          /\ UNCHANGED resp
  /\ UNCHANGED <<orders, stock, nextOrderId, rowLock, txState, txOrderId,
                 txOrder, txStock, idx, payVars, userVars>>

\* Lines 803-813: stripe.refunds.create; a refusal throws and is answered
\* 500.
RefundCreate(r) ==
  /\ pc[r] = "refund"
  /\ IF ProviderAcceptsRefund(req[r].paymentId, RefundAmount(req[r]))
     THEN /\ req' = [req EXCEPT ![r].refund = RefundAmount(req[r])]
          /\ pc' = [pc EXCEPT ![r] = "update"]
          /\ UNCHANGED resp
     ELSE /\ resp' = [resp EXCEPT ![r] = 500]
          /\ pc' = [pc EXCEPT ![r] = "done"]
          /\ UNCHANGED req
  /\ UNCHANGED <<orders, stock, nextOrderId, rowLock, txState, txOrderId,
                 txOrder, txStock, idx, payVars, userVars>>

\* Lines 816-831: order.update({paymentStatus: 'refunded', status:
\* 'cancelled'}) and the 200 response.
RefundUpdate(r) ==
  /\ pc[r] = "update"
  /\ orders' = [orders EXCEPT ![req[r].orderId].paymentStatus = "refunded",
                              ![req[r].orderId].status = "cancelled"]
  /\ resp' = [resp EXCEPT ![r] = 200]
  /\ pc' = [pc EXCEPT ![r] = "done"]
  /\ UNCHANGED <<stock, nextOrderId, rowLock, req, txState, txOrderId,
                 txOrder, txStock, idx, payVars, userVars>>

\* order.update throws after the provider accepted the refund: 500.
RefundUpdateFails(r) ==
  /\ pc[r] = "update"
  /\ resp' = [resp EXCEPT ![r] = 500]
  /\ pc' = [pc EXCEPT ![r] = "done"]
  /\ UNCHANGED <<orders, stock, nextOrderId, rowLock, req, txState, txOrderId,
                 txOrder, txStock, idx, payVars, userVars>>

(***************************************************************************)
(* orderController.js: getOrderById and updateOrder.  The routes run them  *)
(* behind protect, so the caller u is a row of the users table.            *)
(***************************************************************************)
\* The values of the status column (Order.js, DataTypes.ENUM).
StatusEnum == {"pending", "processing", "shipped", "delivered", "cancelled"}

\* if (v): a field of the body that is sent and is not the empty string.
Truthy(v) == v \notin {NotSent, ""}

\* The body of an updateOrder request.
OrderPatch(status, trackingNumber, notes) ==
  [NoPatch EXCEPT !.status = status, !.trackingNumber = trackingNumber,
                  !.notes = notes]

\* updateData (lines 382-385) applied to a row by order.update.
ApplyUpdateDataIgnoringPresence(row, patch) ==
  [row EXCEPT !.status = IF Truthy(patch.status) THEN patch.status ELSE @,
              !.trackingNumber = IF patch.trackingNumber # "" 
                                 THEN patch.trackingNumber ELSE @,
              !.notes = IF Truthy(patch.notes) THEN patch.notes ELSE @]

ApplyUpdateData(row, patch) ==
  [row EXCEPT !.status = IF Truthy(patch.status) THEN patch.status ELSE @,
              !.trackingNumber = IF Truthy(patch.trackingNumber)
                                 THEN patch.trackingNumber ELSE @,
              !.notes = IF Truthy(patch.notes) THEN patch.notes ELSE @]

\* The ownership test of updateOrder (line 375): TRUE when access is denied.
UpdateDeniedForEveryOther(u, order) == orders[order].userId # u

UpdateDenied(u, order) ==
  users[u].role = "user" /\ orders[order].userId # u

\* updateOrder (lines 360-407).  A status outside the enum makes
\* order.update throw.
UpdateOrder(u, id, patch, failure) ==
  LET order == FindByPk(id)
      done(status) ==
        /\ lastCall' = Call("updateOrder", u, id, patch, status, 0)
        /\ UNCHANGED orders
  IN /\ u \in DOMAIN users
     /\ IF failure = "db"
        THEN /\ lastCall' = Caught(Call("updateOrder", u, id, patch, 500, 0))
             /\ UNCHANGED orders
        ELSE IF order = 0 THEN done(404)
        ELSE IF UpdateDenied(u, order) THEN done(403)
        ELSE IF Truthy(patch.status) /\ patch.status \notin StatusEnum
        THEN done(500)
        ELSE /\ orders' = [orders EXCEPT
                             ![order] = ApplyUpdateData(orders[order], patch)]
             /\ lastCall' = Call("updateOrder", u, id, patch, 200, order)
     /\ lastOp' = NoOp
     /\ UNCHANGED <<orderVars, intents, users>>

\* The row getOrderById looks up (lines 279-284): the caller's own order of
\* this id, 0 for null.
FindAnyOrderForGet(id, u) == FindByPk(id)

FindOrderForGet(id, u) == FindOwnOrder(id, u)

\* getOrderById (lines 275-308).
GetOrderById(u, id, failure) ==
  LET order == FindOrderForGet(id, u)
  IN /\ u \in DOMAIN users
     /\ lastCall' =
          IF failure = "db"
          THEN Caught(Call("getOrderById", u, id, NoPatch, 500, 0))
          ELSE IF order = 0 THEN Call("getOrderById", u, id, NoPatch, 404, 0)
          ELSE Call("getOrderById", u, id, NoPatch, 200, order)
     /\ lastOp' = NoOp
     /\ UNCHANGED <<orders, orderVars, intents, users>>

(***************************************************************************)
(* middleware/auth.js and the routers.  A bearer token is absent, fails    *)
(* jwt.verify, or carries the id of the user it was issued to.             *)
(***************************************************************************)
NoToken == [kind |-> "none", id |-> 0]
BadToken == [kind |-> "invalid", id |-> 0]
TokenOf(u) == [kind |-> "valid", id |-> u]

\* protect (auth.js lines 5-44): 0 when it calls next() with req.user the row
\* of the token's id, else the status it answers.
protect(token) ==
  IF token.kind = "none" THEN 401
  ELSE IF token.kind = "invalid" THEN 401
  ELSE IF token.id \notin DOMAIN users THEN 401
  ELSE 0

\* superAdmin (auth.js lines 58-67): TRUE when it calls next().
superAdmin(u) == users[u].role = "super_admin"

adminOrSuperAdminAnyUser(u) == u \in DOMAIN users

\* adminOrSuperAdmin (auth.js lines 70-79): TRUE when it calls next().
adminOrSuperAdmin(u) == users[u].role \in {"admin", "super_admin"}

\* The routes of routes/admin.js behind protect and a role check.
AdminRoutes == {"getDashboardStats", "getAllUsers", "getUserById",
                "updateUser", "getAllOrders"}
GatedRoutes == AdminRoutes \cup {"deleteUser", "processRefund"}

\* The middleware a router puts before the handler of a route: 0 when the
\* handler is called, else the status answered without it.
Middleware(token, route) ==
  IF protect(token) # 0 THEN protect(token)
  ELSE IF route = "deleteUser" /\ ~superAdmin(token.id) THEN 403
  ELSE IF route \in AdminRoutes \cup {"processRefund"}
          /\ ~adminOrSuperAdmin(token.id) THEN 403
  ELSE 0

\* A request the middleware of its route answers; the handler does not run.
Rejected(token, route, target) ==
  /\ Middleware(token, route) # 0
  /\ lastCall' = [Call(route, token.id, target, NoPatch,
                       Middleware(token, route), 0) EXCEPT !.handler = FALSE]
  /\ lastOp' = NoOp
  /\ UNCHANGED <<orders, orderVars, intents, users>>

(***************************************************************************)
(* adminController.js                                                      *)
(***************************************************************************)
\* getDashboardStats, getAllUsers and getAllOrders (lines 449-486, 54-86,
\* 371-409) read and answer 200.
ReadRoutes == {"getDashboardStats", "getAllUsers", "getAllOrders"}

AdminRead(token, route) ==
  /\ route \in ReadRoutes
  /\ Middleware(token, route) = 0
  /\ lastCall' = Call(route, token.id, 0, NoPatch, 200, 0)
  /\ lastOp' = NoOp
  /\ UNCHANGED <<orders, orderVars, intents, users>>

\* getUserById (lines 124-154).
GetUserById(token, id) ==
  /\ Middleware(token, "getUserById") = 0
  /\ lastCall' = IF id \in DOMAIN users
                 THEN Call("getUserById", token.id, id, NoPatch, 200, id)
                 ELSE Call("getUserById", token.id, id, NoPatch, 404, 0)
  /\ lastOp' = NoOp
  /\ UNCHANGED <<orders, orderVars, intents, users>>

\* The body of an updateUser request; isActive is "true" or "false" for a
\* JSON boolean.
UserPatch(role, isActive) ==
  [NoPatch EXCEPT !.role = role, !.isActive = isActive]

\* updateData (lines 230-234) applied to a row by user.update.
ApplyUserUpdate(row, patch) ==
  [row EXCEPT !.role = IF Truthy(patch.role) THEN patch.role ELSE @,
              !.isActive = IF patch.isActive \in {"true", "false"}
                           THEN patch.isActive = "true" ELSE @]

\* The guard of updateUser on the row it found (lines 221-227): TRUE when
\* the request is answered 403.
ModifyRefusedForUsersOnly(caller, id) ==
  users[id].role = "super_admin" /\ users[caller].role = "user"

ModifyRefused(caller, id) ==
  users[id].role = "super_admin" /\ users[caller].role # "super_admin"

\* updateUser (lines 208-250).
UpdateUser(token, id, patch, failure) ==
  LET done(call) == lastCall' = call /\ UNCHANGED users
  IN /\ Middleware(token, "updateUser") = 0
     /\ IF failure = "db"
        THEN done(Caught(Call("updateUser", token.id, id, patch, 500, 0)))
        ELSE IF id \notin DOMAIN users
        THEN done(Call("updateUser", token.id, id, patch, 404, 0))
        ELSE IF ModifyRefused(token.id, id)
        THEN done(Call("updateUser", token.id, id, patch, 403, 0))
        ELSE /\ users' = [users EXCEPT ![id] = ApplyUserUpdate(@, patch)]
             /\ lastCall' = Call("updateUser", token.id, id, patch, 200, id)
     /\ lastOp' = NoOp
     /\ UNCHANGED <<orders, orderVars, intents>>

\* deleteUser (lines 288-319).  user.destroy() takes the orders of the user
\* with it (models/index.js, onDelete: 'CASCADE').
DeleteUser(token, id, failure) ==
  LET done(call) == lastCall' = call /\ UNCHANGED <<users, orders>>
  IN /\ Middleware(token, "deleteUser") = 0
     /\ IF failure = "db"
        THEN done(Caught(Call("deleteUser", token.id, id, NoPatch, 500, 0)))
        ELSE IF id \notin DOMAIN users
        THEN done(Call("deleteUser", token.id, id, NoPatch, 404, 0))
        ELSE IF users[id].role = "super_admin"
        THEN done(Call("deleteUser", token.id, id, NoPatch, 403, 0))
        ELSE /\ users' = [u \in DOMAIN users \ {id} |-> users[u]]
             /\ orders' = [o \in {x \in DOMAIN orders : orders[x].userId # id}
                           |-> orders[o]]
             /\ lastCall' = Call("deleteUser", token.id, id, NoPatch, 200, 0)
     /\ lastOp' = NoOp
     /\ UNCHANGED <<orderVars, intents>>

\* Two orders placed earlier by two users; no request is in flight.
PlacedOrders ==
  (1 :> OrderRow(OrderAttributes(
          OrderRequest(1, JsArray(<<Item(1, 2, 1000), Item(2, 1, 500)>>), JsObject))))
  @@ (2 :> OrderRow(OrderAttributes(
          OrderRequest(2, JsArray(<<Item(1, 1, 5)>>), JsObject))))

InitPay ==
  /\ orders = PlacedOrders
  /\ stock = [p \in Products |->
              InitStock[p] - QuantityOf(PlacedOrders[1].items, p)
                           - QuantityOf(PlacedOrders[2].items, p)]
  /\ nextOrderId = Len(PlacedOrders) + 1
  /\ rowLock = [p \in Products |-> 0]
  /\ pc = [r \in Requests |-> "start"]
  /\ req = [r \in Requests |-> NoRequest]
  /\ txState = [r \in Requests |-> "none"]
  /\ txOrderId = [r \in Requests |-> 0]
  /\ txOrder = [r \in Requests |-> NoRow]
  /\ txStock = [r \in Requests |-> NoWrites]
  /\ idx = [r \in Requests |-> 0]
  /\ resp = [r \in Requests |-> 0]
  /\ intents = <<>>
  /\ lastOp = NoOp
  /\ users = RegisteredUsers
  /\ lastCall = NoCall

NextPay ==
  \/ \E pi \in 1..MaxIntents : ProviderPaymentFails(pi)
  \/ \E pi \in 1..MaxIntents : ProviderPaymentSucceeds(pi)
  \/ \E u \in Users, o \in OrderIdInputs, f \in Failures :
       CreatePaymentIntent(u, o, f)
  \/ \E u \in Users, o \in OrderIdInputs, pi \in IntentIdInputs, f \in Failures :
       ConfirmPayment(u, o, pi, f)
  \/ \E kind \in EventKinds, pi \in 1..MaxIntents,
        o \in OrderIdInputs, f \in {"none", "db"} :
       HandleWebhook(TRUE, kind, pi, o, f)
  \/ \E pi \in 1..MaxIntents, o \in OrderIdInputs :
       HandleWebhook(FALSE, "payment_intent.succeeded", pi, o, "none")
  \/ \E o \in OrderIdInputs, reason \in BOOLEAN, f \in Failures :
       ProcessRefund(3, o, reason, f)

SpecPay == InitPay /\ [][NextPay]_vars

(***************************************************************************)
(* The webhook endpoint alone, fed by a provider account that also holds   *)
(* intents without a resolvable orderId in their metadata.                 *)
(***************************************************************************)
NextHook ==
  \/ \E o \in {0, nextOrderId} : ProviderForeignIntent(o)
  \/ \E pi \in 1..MaxIntents : ProviderPaymentFails(pi)
  \/ \E pi \in 1..MaxIntents : ProviderPaymentSucceeds(pi)
  \/ \E u \in Users, o \in OrderIdInputs, f \in Failures :
       CreatePaymentIntent(u, o, f)
  \/ \E signed \in BOOLEAN, kind \in EventKinds, pi \in 1..MaxIntents,
        o \in OrderIdInputs, f \in {"none", "db"} :
       HandleWebhook(signed, kind, pi, o, f)

SpecHook == InitPay /\ [][NextHook]_vars

(***************************************************************************)
(* Reading and updating the placed orders, by every user.                  *)
(***************************************************************************)
StatusInputs == {NotSent, "", "shipped", "returned"}
TrackingInputs == {NotSent, "TRK1"}
NotesInputs == {NotSent, "call first"}

\* The ids a path can name: an order, an id no order has.
OrderIdParams == DOMAIN orders \cup {nextOrderId}

NextUpdate ==
  \/ \E u \in DOMAIN users, id \in OrderIdParams, st \in StatusInputs,
        tr \in TrackingInputs, no \in NotesInputs :
       UpdateOrder(u, id, OrderPatch(st, tr, no), "none")
  \/ \E u \in DOMAIN users, id \in OrderIdParams :
       UpdateOrder(u, id, OrderPatch("shipped", NotSent, NotSent), "db")
  \/ \E u \in DOMAIN users, id \in OrderIdParams, f \in {"none", "db"} :
       GetOrderById(u, id, f)

SpecUpdate == InitPay /\ [][NextUpdate]_vars

(***************************************************************************)
(* An order from payment to refund: the customer pays, an admin moves the  *)
(* order on, an admin refunds it.                                          *)
(***************************************************************************)
NextRefund ==
  \/ \E pi \in 1..MaxIntents : ProviderPaymentSucceeds(pi)
  \/ \E u \in Users, o \in OrderIdInputs : CreatePaymentIntent(u, o, "none")
  \/ \E u \in Users, o \in OrderIdInputs, pi \in IntentIdInputs :
       ConfirmPayment(u, o, pi, "none")
  \/ \E o \in DOMAIN orders, st \in {"shipped", "delivered"} :
       UpdateOrder(3, o, OrderPatch(st, NotSent, NotSent), "none")
  \/ \E o \in OrderIdInputs, reason \in BOOLEAN, f \in Failures :
       ProcessRefund(3, o, reason, f)

SpecRefund == InitPay /\ [][NextRefund]_vars

(***************************************************************************)
(* Refund requests served at the same time, for orders paid before.        *)
(***************************************************************************)
RefundAmountInputs == {0, 1000}

NextRace ==
  \/ \E u \in Users, o \in DOMAIN orders : CreatePaymentIntent(u, o, "none")
  \/ \E pi \in 1..MaxIntents : ProviderPaymentSucceeds(pi)
  \/ \E u \in Users, o \in DOMAIN orders, pi \in 1..MaxIntents :
       ConfirmPayment(u, o, pi, "none")
  \/ \E r \in Requests, o \in DOMAIN orders, amount \in RefundAmountInputs :
       RefundStart(r, o, amount)
  \/ \E r \in Requests : RefundCreate(r)
  \/ \E r \in Requests : RefundUpdate(r)
  \/ \E r \in Requests : RefundUpdateFails(r)

SpecRace == InitPay /\ [][NextRace]_vars

(***************************************************************************)
(* Orders placed through createOrder and then paid and refunded: the       *)
(* requests of createOrder and, for the orders committed so far, the       *)
(* payment routes.                                                         *)
(***************************************************************************)
\* The bodies of the createOrder requests.
ShopRequests ==
  { OrderRequest(1, JsArray(<<Item(1, 2, 1000)>>), JsObject),
    OrderRequest(2, JsArray(<<Item(1, 1, 5)>>), JsObject) }

\* The createOrder requests served next to the payment routes.
ShopSlots == 1..NumShopRequests

NextShop ==
  \/ \E r \in ShopSlots :
       /\ CreateOrderInsert(r) /\ req'[r] \in ShopRequests
       /\ UNCHANGED <<payVars, userVars>>
  \/ \E r \in ShopSlots : DecrementItem(r) /\ UNCHANGED <<payVars, userVars>>
  \/ \E r \in ShopSlots : Commit(r) /\ UNCHANGED <<payVars, userVars>>
  \/ \E r \in ShopSlots : Respond(r) /\ UNCHANGED <<payVars, userVars>>
  \/ \E o \in DOMAIN orders : CreatePaymentIntent(orders[o].userId, o, "none")
  \/ \E pi \in 1..MaxIntents : ProviderPaymentSucceeds(pi)
  \/ \E o \in DOMAIN orders, pi \in 0..MaxIntents :
       ConfirmPayment(orders[o].userId, o, pi, "none")
  \/ \E pi \in 1..MaxIntents, f \in {"none", "db"} :
       HandleWebhook(TRUE, "payment_intent.succeeded", pi,
                     intents[pi].orderId, f)
  \/ \E o \in DOMAIN orders, f \in Failures : ProcessRefund(3, o, TRUE, f)

SpecShop == InitOrder /\ [][NextShop]_vars

(***************************************************************************)
(* The admin router, the refund route and one order route, called with     *)
(* every kind of token.                                                    *)
(***************************************************************************)
Tokens == {NoToken, BadToken, TokenOf(1), TokenOf(3), TokenOf(4)}
UserIdParams == {1, 3, 4, 5}
UserPatches == {UserPatch(NotSent, "false"), UserPatch(NotSent, "true"),
                UserPatch("admin", NotSent), UserPatch("user", NotSent)}

NextAdmin ==
  \/ \E t \in Tokens, route \in GatedRoutes \cup {"getOrderById"},
        id \in {1} :
       Rejected(t, route, id)
  \/ \E t \in Tokens, route \in ReadRoutes : AdminRead(t, route)
  \/ \E t \in Tokens, id \in UserIdParams : GetUserById(t, id)
  \/ \E t \in Tokens, id \in UserIdParams, patch \in UserPatches :
       UpdateUser(t, id, patch, "none")
  \/ \E t \in Tokens : UpdateUser(t, 1, UserPatch(NotSent, "false"), "db")
  \/ \E t \in Tokens, id \in UserIdParams, f \in {"none", "db"} :
       DeleteUser(t, id, f)
  \/ \E t \in Tokens, o \in OrderIdParams :
       /\ Middleware(t, "processRefund") = 0
       /\ ProcessRefund(t.id, o, TRUE, "none")
  \/ \E t \in Tokens, o \in OrderIdParams :
       /\ Middleware(t, "getOrderById") = 0
       /\ GetOrderById(t.id, o, "none")

SpecAdmin == InitPay /\ [][NextAdmin]_vars

(***************************************************************************)
(* Role changes through PUT /api/admin/users/:id, by a user, the admin and *)
(* the super admin.                                                        *)
(***************************************************************************)
RolePatches == {UserPatch("super_admin", NotSent), UserPatch("admin", NotSent),
                UserPatch("user", NotSent)}

NextRoles ==
  \/ \E t \in {TokenOf(1), TokenOf(3), TokenOf(4)}, id \in DOMAIN users :
       Rejected(t, "updateUser", id)
  \/ \E t \in {TokenOf(1), TokenOf(3), TokenOf(4)}, id \in DOMAIN users,
        patch \in RolePatches :
       UpdateUser(t, id, patch, "none")

SpecRoles == InitPay /\ [][NextRoles]_vars

(***************************************************************************)
(* Properties of the payment handlers.                                     *)
(***************************************************************************)
PaymentTransitions ==
  {<<"pending", "paid">>, <<"pending", "failed">>, <<"paid", "refunded">>}

\* C1: every change of an order's paymentStatus is pending -> paid,
\* pending -> failed or paid -> refunded.
C1_PaymentStatusTransitions ==
  [][\A o \in DOMAIN orders :
       orders'[o].paymentStatus # orders[o].paymentStatus
       => <<orders[o].paymentStatus, orders'[o].paymentStatus>>
            \in PaymentTransitions]_vars

\* C8: a webhook whose signature does not verify is answered 400 and
\* leaves the orders table as it was.
C8_BadSignatureRejected ==
  [][(lastOp'.op = "webhook" /\ ~lastOp'.signed)
     => (lastOp'.status = 400 /\ orders' = orders)]_vars

\* An unsigned payment_intent.succeeded payload naming an order that is
\* not paid has been answered 400.
C8_Witness ==
  /\ lastOp.op = "webhook" /\ ~lastOp.signed /\ lastOp.status = 400
  /\ lastOp.kind = "payment_intent.succeeded"
  /\ lastOp.order \in DOMAIN orders
  /\ orders[lastOp.order].paymentStatus = "pending"

\* The delivery of a payment_intent.succeeded event for an order that
\* exists, served without an error.
SucceededDelivered(op) ==
  /\ op.op = "webhook" /\ op.signed /\ op.failure = "none"
  /\ op.kind = "payment_intent.succeeded"
  /\ op.order \in DOMAIN orders

\* C9: a delivery of payment_intent.succeeded leaves the order with
\* paymentStatus = paid, paymentId = the intent's id and status =
\* processing, and the same delivery served once more right after it leaves
\* the orders table as the first left it.
C9_SucceededIdempotent ==
  [][SucceededDelivered(lastOp')
     => /\ orders'[lastOp'.order].paymentStatus = "paid"
        /\ orders'[lastOp'.order].paymentId = lastOp'.intent
        /\ orders'[lastOp'.order].status = "processing"
        /\ ((lastOp'.again /\ SucceededDelivered(lastOp)) => orders' = orders)]_vars

\* The same payment_intent.succeeded event has been delivered twice in a
\* row, and the order is paid.
C9_Witness ==
  /\ SucceededDelivered(lastOp) /\ lastOp.again
  /\ orders[lastOp.order].paymentStatus = "paid"
  /\ orders[lastOp.order].paymentId = lastOp.intent
  /\ orders[lastOp.order].status = "processing"

\* C10: a signed payment succeeded or payment failed event whose
\* processing fails (the order lookup or update throws) is answered 5xx.
C10_ProcessingErrorReported ==
  (/\ lastOp.op = "webhook" /\ lastOp.signed
   /\ lastOp.kind \in {"payment_intent.succeeded", "payment_intent.payment_failed"}
   /\ lastOp.failure # "none")
  => lastOp.status >= 500

\* C11: a signed webhook event is acknowledged with 200 and leaves every
\* order unchanged when its kind is not one the handler recognizes, or when
\* the orderId in the intent's metadata is absent or names no existing order.
C11_UnhandledEventAcknowledged ==
  [][(/\ lastOp'.op = "webhook" /\ lastOp'.signed
      /\ \/ lastOp'.kind \notin {"payment_intent.succeeded",
                                 "payment_intent.payment_failed"}
         \/ lastOp'.order = 0
         \/ lastOp'.order \notin DOMAIN orders)
     => (lastOp'.status = 200 /\ orders' = orders)]_vars

\* A succeeded event whose metadata names an id no order has was
\* acknowledged.
C11_Witness ==
  /\ lastOp.op = "webhook" /\ lastOp.signed
  /\ lastOp.kind = "payment_intent.succeeded"
  /\ lastOp.order # 0 /\ lastOp.order \notin DOMAIN orders
  /\ lastOp.status = 200

\* The columns of an order row.
OrderFields == DOMAIN NoRow

\* C12: a signed payment_intent.payment_failed event for an existing order
\* sets its paymentStatus to failed and its paymentId to the intent's id,
\* and leaves its status, all its other fields and every other order
\* unchanged.
C12_PaymentFailedEvent ==
  [][(/\ lastOp'.op = "webhook" /\ lastOp'.signed
      /\ lastOp'.kind = "payment_intent.payment_failed"
      /\ lastOp'.failure = "none"
      /\ lastOp'.order \in DOMAIN orders)
     => (/\ DOMAIN orders' = DOMAIN orders
         /\ orders'[lastOp'.order].paymentStatus = "failed"
         /\ orders'[lastOp'.order].paymentId = lastOp'.intent
         /\ \A f \in OrderFields \ {"paymentStatus", "paymentId"} :
              orders'[lastOp'.order][f] = orders[lastOp'.order][f]
         /\ \A o \in DOMAIN orders \ {lastOp'.order} :
              orders'[o] = orders[o])]_vars

\* A payment_failed event arrived for an order that an earlier succeeded
\* event had moved to processing, while the other order is untouched.
C12_Witness ==
  /\ lastOp.op = "webhook" /\ lastOp.signed /\ lastOp.failure = "none"
  /\ lastOp.kind = "payment_intent.payment_failed"
  /\ lastOp.order \in DOMAIN orders
  /\ orders[lastOp.order].paymentStatus = "failed"
  /\ orders[lastOp.order].paymentId = lastOp.intent
  /\ orders[lastOp.order].status = "processing"

C14_ConfirmPayment ==
  [][lastOp'.op = "confirmPayment"
     => LET o == lastOp'.order
            pi == lastOp'.intent
            succeeded == /\ pi \in DOMAIN intents
                         /\ intents[pi].status = "succeeded"
                         /\ lastOp'.failure # "stripe"
        IN /\ (orders' # orders \/ lastOp'.status = 200)
              => (/\ o \in DOMAIN orders
                  /\ orders[o].userId = lastOp'.user
                  /\ succeeded
                  /\ orders' = [orders EXCEPT ![o].paymentStatus = "paid",
                                              ![o].paymentId = pi,
                                              ![o].status = "processing"])
           /\ ~succeeded => (lastOp'.status >= 400 /\ orders' = orders)]_vars

\* A caller confirmed the succeeded intent of an own order.
C14_Witness ==
  /\ lastOp.op = "confirmPayment" /\ lastOp.status = 200
  /\ lastOp.order \in DOMAIN orders
  /\ orders[lastOp.order].userId = lastOp.user
  /\ orders[lastOp.order].paymentStatus = "paid"
  /\ orders[lastOp.order].paymentId = lastOp.intent
  /\ orders[lastOp.order].status = "processing"

\* C15: createPaymentIntent never changes an order.  It is rejected when the
\* order does not exist, is not the caller's or is already paid; otherwise
\* it asks the provider for an intent of round(totalAmount * 100) minor units
\* bound to the order and the user, and answers with its client secret.
C15_CreatePaymentIntent ==
  [][lastOp'.op = "createPaymentIntent"
     => LET o == lastOp'.order
            payable == /\ o \in DOMAIN orders
                       /\ orders[o].userId = lastOp'.user
                       /\ orders[o].paymentStatus # "paid"
        IN /\ orders' = orders
           /\ ~payable => (/\ lastOp'.status >= 400
                           /\ lastOp'.failure = "none"
                              => lastOp'.status \in {400, 404}
                           /\ intents' = intents)
           /\ (payable /\ lastOp'.failure = "none")
              => (/\ lastOp'.status = 200
                  /\ lastOp'.intent = Len(intents) + 1
                  /\ intents' = Append(intents,
                        [orderId |-> o, userId |-> lastOp'.user,
                         amount |-> orders[o].totalAmount,
                         status |-> "requires_payment_method",
                         failed |-> FALSE]))]_vars

\* An intent of 3750 minor units was created for order 1 (total 37.50) of
\* user 1, and the order is as it was placed.
C15_Witness ==
  /\ lastOp.op = "createPaymentIntent" /\ lastOp.status = 200
  /\ lastOp.order = 1 /\ lastOp.user = 1
  /\ lastOp.intent \in DOMAIN intents
  /\ intents[lastOp.intent].orderId = 1
  /\ intents[lastOp.intent].userId = 1
  /\ intents[lastOp.intent].amount = 3750
  /\ orders[1].totalAmount = 3750
  /\ orders[1] = PlacedOrders[1]

C17_UpdateOrderFrame ==
  [][(/\ lastOp' = NoOp /\ lastCall'.route = "updateOrder"
      /\ lastCall'.status = 200)
     => (/\ DOMAIN orders' = DOMAIN orders
         /\ \A f \in OrderFields :
              orders'[lastCall'.target][f] # orders[lastCall'.target][f]
              => (/\ f \in {"status", "trackingNumber", "notes"}
                  /\ lastCall'.patch[f] # NotSent)
         /\ \A o \in DOMAIN orders \ {lastCall'.target} :
              orders'[o] = orders[o])]_vars

\* An update that carried a status and notes but no trackingNumber was
\* applied: the order is shipped and its trackingNumber is still NULL.
C17_Witness ==
  /\ lastCall.route = "updateOrder" /\ lastCall.status = 200
  /\ lastCall.patch.status = "shipped"
  /\ lastCall.patch.trackingNumber = NotSent
  /\ lastCall.patch.notes = "call first"
  /\ orders[lastCall.target].status = "shipped"
  /\ orders[lastCall.target].notes = "call first"
  /\ orders[lastCall.target].trackingNumber = NullStr

\* C18: getOrderById returns an order only when its userId is the caller's
\* id; an id no order has and an order of another user are answered with
\* the same 404, whatever the caller's role.
C18_GetOrderByIdOwnOnly ==
  [][(lastOp' = NoOp /\ lastCall'.route = "getOrderById")
     => /\ lastCall'.data # 0
           => (/\ lastCall'.status = 200
               /\ lastCall'.data = lastCall'.target
               /\ lastCall'.target \in DOMAIN orders
               /\ orders[lastCall'.target].userId = lastCall'.caller)
        /\ (/\ lastCall'.failure = "none"
            /\ \/ lastCall'.target \notin DOMAIN orders
               \/ orders[lastCall'.target].userId # lastCall'.caller)
           => lastCall' = Call("getOrderById", lastCall'.caller,
                               lastCall'.target, NoPatch, 404, 0)]_vars

\* An admin asked for the order of a user and got 404.
C18_Witness ==
  /\ lastCall.route = "getOrderById" /\ lastCall.status = 404
  /\ lastCall.target \in DOMAIN orders
  /\ users[lastCall.caller].role = "admin"
  /\ lastCall.data = 0

\* C19: a protected request is handled only when its bearer token is valid
\* and resolves to an existing user that is active; with no token, an
\* invalid token, the token of a deleted user or of an inactive user it is
\* answered 401 and the handler does not run.
C19_OnlyActiveUsersHandled ==
  [][/\ lastOp'.op = "processRefund"
        => (/\ lastOp'.user \in DOMAIN users
            /\ users[lastOp'.user].isActive)
     /\ (lastOp' = NoOp /\ lastCall'.route # "none")
        => IF /\ lastCall'.caller \in DOMAIN users
              /\ users[lastCall'.caller].isActive
           THEN TRUE
           ELSE ~lastCall'.handler /\ lastCall'.status = 401]_vars

\* The callers a gated route lets through to its handler.
Permitted(route, u) ==
  IF route = "deleteUser" THEN users[u].role = "super_admin"
  ELSE users[u].role \in {"admin", "super_admin"}

\* C20: processRefund and the admin endpoints run only for callers of role
\* admin or super_admin, deleteUser only for super_admin; any other
\* authenticated caller is answered 403 and no order or user changes.
C20_AdminOnly ==
  [][/\ lastOp'.op = "processRefund"
        => Permitted("processRefund", lastOp'.user)
     /\ (lastOp' = NoOp /\ lastCall'.route \in GatedRoutes)
        => LET u == lastCall'.caller
           IN /\ lastCall'.handler
                 => (u \in DOMAIN users /\ Permitted(lastCall'.route, u))
              /\ (u \in DOMAIN users /\ ~Permitted(lastCall'.route, u))
                 => (/\ lastCall'.status = 403
                     /\ ~lastCall'.handler
                     /\ orders' = orders
                     /\ users' = users)]_vars

\* An admin asked to delete a user and got 403 from the router; the user
\* and the orders are still there.
C20_Witness ==
  /\ lastCall.route = "deleteUser" /\ lastCall.status = 403
  /\ ~lastCall.handler
  /\ lastCall.caller \in DOMAIN users
  /\ users[lastCall.caller].role = "admin"
  /\ lastCall.target \in DOMAIN users
  /\ users[lastCall.target].role = "user"
  /\ DOMAIN orders = DOMAIN PlacedOrders

\* The users whose role is super_admin.
SuperAdmins == {u \in DOMAIN users : users[u].role = "super_admin"}

\* C21: a user of role super_admin is never deleted, and is modified only
\* by a caller of role super_admin; an updateUser of any other caller on
\* such a user, and every deleteUser on one, is answered 403 and leaves the
\* user unchanged.
C21_SuperAdminProtected ==
  [][/\ \A u \in SuperAdmins :
          /\ u \in DOMAIN users'
          /\ users'[u] # users[u]
             => (/\ lastOp' = NoOp /\ lastCall'.route = "updateUser"
                 /\ lastCall'.handler /\ lastCall'.target = u
                 /\ lastCall'.caller \in SuperAdmins)
     /\ (/\ lastOp' = NoOp
         /\ lastCall'.route \in {"updateUser", "deleteUser"}
         /\ lastCall'.failure = "none"
         /\ lastCall'.target \in SuperAdmins
         /\ lastCall'.caller \in DOMAIN users
         /\ \/ lastCall'.route = "deleteUser"
            \/ lastCall'.caller \notin SuperAdmins)
        => (lastCall'.status = 403 /\ users' = users)]_vars

\* The handler of updateUser refused an admin's request to change the super
\* admin, who is as registered.
C21_Witness ==
  /\ lastCall.route = "updateUser" /\ lastCall.status = 403
  /\ lastCall.handler
  /\ lastCall.caller \in DOMAIN users
  /\ users[lastCall.caller].role = "admin"
  /\ lastCall.target \in SuperAdmins
  /\ users[lastCall.target] = RegisteredUsers[lastCall.target]

\* C22: every transaction createOrder opens is finished exactly once: it is
\* committed or rolled back before the response is sent, the 400 responses
\* included.
C22_TransactionFinished ==
  \A r \in Requests :
    resp[r] # 0 => txState[r] \in {"commit", "rollback"}

\* C23: confirmPayment sets an order to paid only with a succeeded intent
\* that was created for that order: the orderId in the intent's metadata is
\* the id of the order.
C23_ConfirmOnlyIntentOfOrder ==
  [][(lastOp'.op = "confirmPayment" /\ lastOp'.status = 200)
     => (/\ lastOp'.intent \in DOMAIN intents
         /\ intents[lastOp'.intent].status = "succeeded"
         /\ intents[lastOp'.intent].orderId = lastOp'.order)]_vars

\* C24: no updateUser request of a caller of role admin makes the set of
\* users of role super_admin grow.
C24_AdminsCannotPromote ==
  [][(/\ lastOp' = NoOp /\ lastCall'.route = "updateUser"
      /\ lastCall'.caller \in DOMAIN users
      /\ users[lastCall'.caller].role = "admin")
     => {u \in DOMAIN users' : users'[u].role = "super_admin"}
          \subseteq SuperAdmins]_vars

\* The requests whose refund for order o the provider has accepted.
AcceptedRefunds(o) ==
  {r \in Requests : /\ pc[r] \in {"update", "done"}
                    /\ "refund" \in DOMAIN req[r]
                    /\ req[r].orderId = o
                    /\ req[r].refund > 0}

\* C25: for each order the provider accepts at most one refund, whatever the
\* interleaving of processRefund requests for it, and also when a request
\* is repeated after one whose order update failed.
C25_AtMostOneRefund ==
  \A o \in DOMAIN orders : Cardinality(AcceptedRefunds(o)) <= 1

\* The statuses an order has once it has left the payment flow.
SettledStatuses == {"shipped", "delivered", "cancelled"}

\* C26: the status of an order that is shipped, delivered or cancelled is
\* changed by updateOrder only: no confirmPayment and no webhook request sets
\* it back to processing, and no other payment request changes it.
C26_SettledStatusKept ==
  [][\A o \in DOMAIN orders \cap DOMAIN orders' :
       (/\ orders[o].status \in SettledStatuses
        /\ orders'[o].status # orders[o].status)
       => (lastOp' = NoOp /\ lastCall'.route = "updateOrder")]_vars

\* C27: in every reachable state an order whose paymentStatus is paid or
\* refunded has a paymentId, and an order enters the table with status
\* pending, paymentStatus pending and no paymentId.
C27_PaymentIdAndNewOrders ==
  /\ [](\A o \in DOMAIN orders :
          orders[o].paymentStatus \in {"paid", "refunded"}
          => orders[o].paymentId # 0)
  /\ [][\A o \in DOMAIN orders' \ DOMAIN orders :
          /\ orders'[o].status = "pending"
          /\ orders'[o].paymentStatus = "pending"
          /\ orders'[o].paymentId = 0]_vars

\* An order that a createOrder request placed and answered with 201 has been
\* paid and then refunded.
C27_Witness ==
  \E r \in Requests :
    /\ resp[r] = 201 /\ txOrderId[r] \in DOMAIN orders
    /\ orders[txOrderId[r]].paymentStatus = "refunded"
    /\ orders[txOrderId[r]].paymentId # 0
    /\ lastOp.op = "processRefund" /\ lastOp.status = 200

====
